---- MODULE Spec2Model ----
(***************************************************************************)
(* Model of the job-events client of simple-job-events-demo.               *)
(*                                                                         *)
(* Part 1: subscribeToJobEvents (client/src/lib/api.ts): the long-poll     *)
(* loop `poll`, its SSE/JSON readers, the retry/backoff path and the       *)
(* cleanup function.  One action is one continuation of the async          *)
(* function, from one await to the next.                                   *)
(*                                                                         *)
(* Part 2: useChatJobEvents (client/src/hooks/useDirectLiteLLM.ts): the    *)
(* chat run, its job creation, status poller and cleanup/reset, the        *)
(* onEvent callback and the typewriter that plays the token text back.     *)
(*                                                                         *)
(* Part 3: the chat tool's batch buffer (documented in the README and in   *)
(* docs/LATENCY_METRICS.md; the tool's code is not part of the client      *)
(* sources) and the chat page's latency panel and diagnostic log.          *)
(***************************************************************************)
EXTENDS Integers, Sequences, FiniteSets, TLC

(* ------------------------------------------------------------------ *)
(* Bounds of the model                                                *)
(* ------------------------------------------------------------------ *)
\* number of events in the server's log of the job
NumEvents == 2
\* number of events requests one subscription may issue
MaxRequests == 6
\* number of responses in which the server ignores Last-Event-ID
MaxRedeliver == 1
\* number of prompts submitted to the chat hook
MaxRuns == 2
\* number of status reads issued for one job
MaxReads == 2
\* number of token batches one run enqueues
MaxTokenEvents == 2
\* number of events one run keeps in its events list
MaxEvents == 2
\* number of fragments the model produces in one stream
MaxFragments == 26
\* the latest time, in ms, the tool's clock reaches
MaxClockMs == 300
\* the longest token text exceeds BURST_THRESHOLD by this many characters
MaxBurst == 6
\* the number of lines and line ends a response body is made of
MaxPieces == 4

(* ------------------------------------------------------------------ *)
(* Program constants                                                  *)
(* ------------------------------------------------------------------ *)
maxConsecutiveErrors == 5
BaseDelayMs == 1000
MaxDelayMs == 10000
\* useChatJobEvents: the typewriter
MIN_TICK_MS == 8
MAX_TICK_MS == 40
QUEUE_FAST_THRESHOLD == 50
BURST_THRESHOLD == 200
BURST_CHARS == 5
\* the chat tool: flush thresholds of the first and of the later batches
\* the grain of the tool's clock, in ms
TickMs == 2
FirstFlushMs == 100
FirstFlushCount == 3
SteadyFlushMs == 300
SteadyFlushCount == 20

\* the status strings a status envelope may carry in the model
StatusStrings ==
  {"running", "succeeded", "success", "complete", "failed", "error"}

\* api.ts:319
terminalStatuses == {"succeeded", "success", "complete", "failed", "error"}

\* error names: TypeError = network failure of fetch/read, TimeoutError =
\* AbortSignal.timeout, Error = `throw new Error("Events request failed")`,
\* AbortError = abortController.abort()
ErrNames == {"TypeError", "TimeoutError", "Error", "AbortError"}

\* Ways a record of the log can be malformed or unrecognized:
\*   unparsable: its text is not JSON (`{"SeqID":"1","ty`)
\*   null:       it is the JSON value null, so reading a field of it throws
\*   nodata:     an ivcap.job.event envelope without `data`
\*   unknown:    an envelope of a type the parser does not know
BadKinds == {"unparsable", "null", "nodata", "unknown"}

VARIABLES
  \* --- the server (environment) ---
  statusPos,          \* position of the status envelope in the log, 0 = none
  statusStr,          \* the status string it carries
  badPos,             \* position of the malformed record in the log, 0 = none
  badKind,            \* what is wrong with it, "none" if badPos = 0
  emitted,            \* events of the log the job has emitted so far
  redeliveries,       \* responses so far that started at or before Last-Event-ID
  \* --- subscribeToJobEvents closure state ---
  lastSeqId,          \* 0 models null
  hasConnected,
  sawTerminalStatus,
  consecutiveErrors,
  aborted,            \* abortController.signal.aborted
  \* --- position of poll() ---
  pc,                 \* "fetch" | "errtext" | "read" | "text" | "backoff" | "done"
  exit,               \* "none" | "return" | "throw": how poll() ended
  timer,              \* delay of the pending backoff setTimeout, 0 = none pending
  respPos,            \* last log position the client has taken from the response
  respTo,             \* last log position the server put in the response
  partial,            \* readSseStream's buffer holds the head of the next block
  \* --- observations ---
  numRequests,        \* events requests issued so far
  sentId,             \* Last-Event-ID of the latest request, 0 = header absent
  maxSentId,          \* highest Last-Event-ID any request has carried
  delivered,          \* seq ids passed to onEvent, in call order
  onErrorCalls,
  onCompleteCalls,
  lastWait,           \* length of the latest backoff wait that has elapsed
  failStreak,         \* failed iterations since the last successful one
  err,                \* the error bound in the catch block, "none" outside it
  brokeMidStream,     \* a response stream failed after part of its events was delivered
  \* --- useChatJobEvents: state and refs ---
  status,             \* ChatRunStatus
  jobId,              \* 0 models null; job g is the job of the g-th submission
  error,              \* "none" models null, else the kind of message
  abortRef,           \* 0 models null, else the index in subs of the subscription
  pollRef,            \* 0 models null, else the job whose interval it holds
  connectedRef,
  assistantIdRef,     \* 0 models null, else the run whose assistant message it names
  messages,           \* per run, its assistant message: [present, text]
  typewriterQueueRef, \* the queued text, a sequence of characters
  typewriterTimerRef, \* 0 models null, else charsToEmit of the pending timeout
  timeoutDelay,       \* the delay of the pending timeout, in 1/50 ms; 0 if none
  pendingTimeouts,    \* the typewriter timeouts set in the window and neither
                      \* fired nor cleared
  tokenEvents,
  events,             \* the events state: the JobEvents received, in order
  enqueuedText,       \* the text enqueued since the last submission or reset
  \* --- the event loop and the jobs service ---
  gen,                \* submissions so far
  creating,           \* submissions whose createChatJob is in flight
  reads,              \* readJob calls in flight: [job, first, n]
  readsIssued,        \* per job, the status reads issued so far
  intervals,          \* jobs whose setInterval poller is active
  subs,               \* subscriptions created: [job, aborted]
  jobState,           \* per job, its status at the jobs service
  cancelled,          \* runs that cleanup() has cancelled
  \* --- the chat tool's batch buffer ---
  now,                \* the tool's clock, ms since the stream started
  streamState,        \* "open" | "ended"
  pending,            \* fragments accumulated since the previous flush
  lastFlushAt,        \* time of the previous flush (of the stream start before it)
  phase,              \* "first" | "steady"
  nextBatch,          \* number of the next batch
  arrived,            \* fragments the model has produced so far
  wire,               \* events the tool has emitted, in order
  triggers,           \* per flush, what triggered it: "count" | "time" | "end"
  \* --- the chat page ---
  latencyBreakdown,   \* the hook's latencyBreakdown, Null models null
  diagnosticLog,      \* the page's diagnosticLog: its sections and metric lines
  \* --- readSseStream on the text of one response body ---
  body,               \* the characters of the response body
  consumed,           \* how many of them reader.read() has returned
  buffer,             \* readSseStream's buffer
  chunksRead,         \* how many reader.read() calls have returned a chunk
  bodyDone            \* reader.read() has returned done

logVars == <<statusPos, statusStr, badPos, badKind>>
serverVars == <<logVars, emitted, redeliveries>>
readerVars == <<lastSeqId, sawTerminalStatus, delivered>>
connVars == <<hasConnected, onCompleteCalls>>
requestVars == <<numRequests, sentId, maxSentId>>
respVars == <<respPos, respTo, partial>>
catchVars == <<consecutiveErrors, err, onErrorCalls, timer, pc, exit>>

subVars == <<serverVars, readerVars, connVars, requestVars, respVars, catchVars,
             aborted, lastWait, failStreak, brokeMidStream>>

refVars == <<abortRef, pollRef, connectedRef>>
playVars == <<assistantIdRef, messages, typewriterQueueRef, typewriterTimerRef,
              timeoutDelay, pendingTimeouts>>
countVars == <<tokenEvents, events, enqueuedText>>
runVars == <<status, jobId, error, refVars, playVars, countVars, gen, creating,
             reads, readsIssued, intervals, subs, jobState, cancelled>>

toolVars == <<now, streamState, pending, lastFlushAt, phase, nextBatch, arrived,
              wire, triggers>>

pageVars == <<latencyBreakdown, diagnosticLog>>

bodyVars == <<body, consumed, buffer, chunksRead, bodyDone>>

vars == <<subVars, runVars, toolVars, pageVars, bodyVars>>

Min(a, b) == IF a < b THEN a ELSE b
Max(a, b) == IF a > b THEN a ELSE b

RECURSIVE Pow2(_)
Pow2(n) == IF n <= 0 THEN 1 ELSE 2 * Pow2(n - 1)

(* ------------------------------------------------------------------ *)
(* The server's event log                                             *)
(* ------------------------------------------------------------------ *)
\* Event i of the log as a wire envelope.  Every envelope carries its SeqID
\* (api.ts:207-211); all but the status envelope are batch start events.
Envelope(i) ==
  IF i = badPos
    THEN [SeqID |-> i, type |-> "malformed", status |-> "none", kind |-> badKind]
  ELSE IF i = statusPos
    THEN [SeqID |-> i, type |-> "ivcap.job.status", status |-> statusStr,
          kind |-> "ok"]
    ELSE [SeqID |-> i, type |-> "ivcap.job.event", status |-> "none",
          kind |-> "ok"]

(* ------------------------------------------------------------------ *)
(* Envelope parsing and block processing                              *)
(* ------------------------------------------------------------------ *)
\* parseIvcapEnvelope's effect on sawTerminalStatus
SetsTerminal(env) ==
  env.type = "ivcap.job.status" /\ env.status \in terminalStatuses

\* JSON.parse of the record's text throws
ParseThrows(env) == env.kind = "unparsable"

\* reading `.SeqID` of the parsed value throws
FieldAccessThrows(env) == env.kind = "null"

\* parseIvcapEnvelope returns an event (parseFlatEvent for an unknown type),
\* not null
YieldsEvent(env) == env.kind \in {"ok", "unknown"}

\* The closure state the readers change, as a record threaded through the
\* blocks of one chunk.
ReaderState == [lastSeqId |-> lastSeqId, saw |-> sawTerminalStatus,
                delivered |-> delivered]

\* a processSseBlock that hands the event on but forgets to advance the cursor
ProcessSseBlockKeepsCursor(st, env) ==
  [lastSeqId |-> st.lastSeqId,
   saw       |-> st.saw \/ SetsTerminal(env),
   delivered |-> Append(st.delivered, env.SeqID)]

\* processSseBlock on the block of one well-formed envelope: the id: line and
\* the SeqID both set the cursor, the parsed event goes to onEvent.
\* A block is `id:<SeqID>` and `data:<record>`.  The id: line sets the cursor
\* before the data is parsed; a throw of JSON.parse or of the field access is
\* caught, processDataLine throws and catches the same again.
ProcessSseBlock(st, env) ==
  IF ParseThrows(env) \/ FieldAccessThrows(env)
    THEN [st EXCEPT !.lastSeqId = env.SeqID]
    ELSE [lastSeqId |-> env.SeqID,
          saw       |-> st.saw \/ SetsTerminal(env),
          delivered |-> IF YieldsEvent(env)
                          THEN Append(st.delivered, env.SeqID)
                          ELSE st.delivered]

\* one item of a JSON body (the for loop of poll) that does not throw
ProcessJsonItem(st, env) ==
  [lastSeqId |-> env.SeqID,
   saw       |-> st.saw \/ SetsTerminal(env),
   delivered |-> IF YieldsEvent(env)
                   THEN Append(st.delivered, env.SeqID)
                   ELSE st.delivered]

RECURSIVE ProcessBlocks(_, _, _)
ProcessBlocks(st, from, to) ==
  IF from > to THEN st
  ELSE ProcessBlocks(ProcessSseBlock(st, Envelope(from)), from + 1, to)

\* The for loop over the items of a JSON body.  An item that throws ends the
\* loop: the catch around it reads the body again as SSE text, which has no
\* data: line, so nothing more is processed.
RECURSIVE ProcessItems(_, _, _)
ProcessItems(st, from, to) ==
  IF from > to THEN st
  ELSE IF FieldAccessThrows(Envelope(from)) THEN st
  ELSE ProcessItems(ProcessJsonItem(st, Envelope(from)), from + 1, to)

\* The non-SSE body: JSON.parse of the whole text, then the items (a single
\* object is the list of that one item).  A body that does not parse goes to
\* the same catch.
ProcessJsonBody(st, from, to) ==
  IF \E i \in from..to : ParseThrows(Envelope(i)) THEN st
  ELSE ProcessItems(st, from, to)

(* ------------------------------------------------------------------ *)
(* Fragments of poll()                                                *)
(* ------------------------------------------------------------------ *)
\* a backoff whose exponent is the failure count itself
BackoffDelayFromTwo(k) == Min(BaseDelayMs * Pow2(k), MaxDelayMs)

\* exponential backoff after the k-th consecutive failure
BackoffDelay(k) == Min(BaseDelayMs * Pow2(k - 1), MaxDelayMs)

\* the filter of poll().catch
SurfacesError(name) == name # "AbortError" /\ name # "TimeoutError"

\* a loop condition that tests the terminal flag only
LoopHeadIgnoresAbort(saw, cursor) ==
  IF saw
    THEN /\ pc' = "done"
         /\ exit' = "return"
         /\ UNCHANGED <<numRequests, sentId, maxSentId>>
    ELSE /\ numRequests < MaxRequests
         /\ pc' = "fetch"
         /\ exit' = exit
         /\ numRequests' = numRequests + 1
         /\ sentId' = cursor
         /\ maxSentId' = Max(maxSentId, cursor)

\* `while (!aborted && !sawTerminalStatus)` followed by the next fetch.
\* saw and cursor are the values the continuation has just written.
LoopHead(saw, cursor) ==
  IF aborted \/ saw
    THEN /\ pc' = "done"
         /\ exit' = "return"
         /\ UNCHANGED requestVars
    ELSE /\ numRequests < MaxRequests
         /\ pc' = "fetch"
         /\ exit' = exit
         /\ numRequests' = numRequests + 1
         /\ sentId' = cursor
         /\ maxSentId' = Max(maxSentId, cursor)

\* markConnected
MarkConnected ==
  /\ hasConnected' = TRUE
  /\ onCompleteCalls' = IF hasConnected THEN onCompleteCalls ELSE onCompleteCalls + 1

\* a successful iteration that leaves the failure counter as it is
IterationKeepsCounter(saw, cursor) ==
  /\ consecutiveErrors' = consecutiveErrors
  /\ LoopHead(saw, cursor)
  /\ UNCHANGED <<err, onErrorCalls, timer>>

\* `consecutiveErrors = 0` at the end of a successful iteration, then the loop
\* goes round
IterationSucceeds(saw, cursor) ==
  /\ consecutiveErrors' = 0
  /\ LoopHead(saw, cursor)
  /\ UNCHANGED <<err, onErrorCalls, timer>>

\* the catch block of the loop and, when it rethrows, poll().catch
Catch(name) ==
  IF aborted
    THEN /\ pc' = "done"
         /\ exit' = "return"
         /\ err' = "none"
         /\ UNCHANGED <<consecutiveErrors, onErrorCalls, timer>>
    ELSE /\ consecutiveErrors' = consecutiveErrors + 1
         /\ err' = name
         /\ IF consecutiveErrors + 1 >= maxConsecutiveErrors
              THEN /\ pc' = "done"
                   /\ exit' = "throw"
                   /\ onErrorCalls' = IF SurfacesError(name)
                                        THEN onErrorCalls + 1 ELSE onErrorCalls
                   /\ UNCHANGED timer
              ELSE /\ pc' = "backoff"
                   /\ exit' = exit
                   /\ timer' = BackoffDelay(consecutiveErrors + 1)
                   /\ UNCHANGED onErrorCalls

(* ------------------------------------------------------------------ *)
(* Actions of the subscriber                                          *)
(* ------------------------------------------------------------------ *)
\* fetch rejects: network failure or request timeout
FetchFails(name) ==
  /\ pc = "fetch" /\ ~aborted
  /\ name \in {"TypeError", "TimeoutError"}
  /\ failStreak' = failStreak + 1
  /\ Catch(name)
  /\ UNCHANGED <<bodyVars, pageVars, toolVars, runVars, serverVars, readerVars, connVars, requestVars, respVars,
                 aborted, lastWait, brokeMidStream>>

\* a 204 that is handled like a failed request
Fetch204CountsFailure ==
  /\ pc = "fetch" /\ ~aborted
  /\ sentId >= emitted
  /\ respPos' = sentId
  /\ respTo' = sentId
  /\ partial' = FALSE
  /\ MarkConnected
  /\ Catch("Error")
  /\ failStreak' = 0
  /\ UNCHANGED <<bodyVars, pageVars, toolVars, runVars, serverVars, readerVars, requestVars, aborted, lastWait,
                 brokeMidStream>>

\* 204: the server has no event after Last-Event-ID
Fetch204 ==
  /\ pc = "fetch" /\ ~aborted
  /\ sentId >= emitted
  /\ respPos' = sentId
  /\ respTo' = sentId
  /\ partial' = FALSE
  /\ MarkConnected
  /\ IterationSucceeds(sawTerminalStatus, lastSeqId)
  /\ failStreak' = 0
  /\ UNCHANGED <<bodyVars, pageVars, toolVars, runVars, serverVars, readerVars, aborted, lastWait, brokeMidStream>>

\* a non-success response: poll awaits response.text() before throwing
FetchNotOk ==
  /\ pc = "fetch" /\ ~aborted
  /\ pc' = "errtext"
  /\ UNCHANGED <<bodyVars, pageVars, toolVars, runVars, serverVars, readerVars, connVars, requestVars, respVars,
                 consecutiveErrors, err, onErrorCalls, timer, exit, aborted,
                 lastWait, failStreak, brokeMidStream>>

\* response.text() of the non-success response resolves (Error is thrown) or
\* rejects (network failure, timeout)
ErrTextSettles(name) ==
  /\ pc = "errtext" /\ ~aborted
  /\ name \in {"Error", "TypeError", "TimeoutError"}
  /\ failStreak' = failStreak + 1
  /\ Catch(name)
  /\ UNCHANGED <<bodyVars, pageVars, toolVars, runVars, serverVars, readerVars, connVars, requestVars, respVars,
                 aborted, lastWait, brokeMidStream>>

\* The continuation of `await fetch` for a 200 response that carries the log
\* positions from..to (to = from - 1: an empty body); sse tells the content type.
OkResponse(from, to, sse) ==
  /\ pc = "fetch" /\ ~aborted
  /\ MarkConnected
  /\ pc' = IF sse THEN "read" ELSE "text"
  /\ respPos' = from - 1
  /\ respTo' = to
  /\ partial' = FALSE
  /\ UNCHANGED <<bodyVars, pageVars, toolVars, runVars, logVars, emitted, readerVars, requestVars,
                 consecutiveErrors, err, onErrorCalls, timer, exit, aborted,
                 lastWait, failStreak, brokeMidStream>>

\* a server that resumes strictly after the Last-Event-ID it is sent, with
\* every event the job has emitted since
FetchOk(sse) ==
  /\ sentId <= emitted
  /\ OkResponse(sentId + 1, emitted, sse)
  /\ UNCHANGED redeliveries

\* a server that ignores Last-Event-ID and sends again events at or before it
FetchOkRedeliver(from, to, sse) ==
  /\ from \in 1..sentId /\ to \in from..emitted
  /\ redeliveries < MaxRedeliver
  /\ redeliveries' = redeliveries + 1
  /\ OkResponse(from, to, sse)

\* reader.read() resolves with a chunk that completes the next n blocks and
\* leaves the head of the block after them in the buffer iff rest
ReadChunkStep(n, rest) ==
  /\ pc = "read" /\ ~aborted
  /\ n \in 0..(respTo - respPos)
  /\ rest => respPos + n < respTo
  /\ n = 0 => (rest /\ ~partial)
  /\ partial' = rest
  /\ LET st == ProcessBlocks(ReaderState, respPos + 1, respPos + n) IN
       /\ lastSeqId' = st.lastSeqId
       /\ sawTerminalStatus' = st.saw
       /\ delivered' = st.delivered
  /\ respPos' = respPos + n
  /\ UNCHANGED <<bodyVars, pageVars, toolVars, serverVars, connVars, requestVars,
                 catchVars, respTo, aborted, lastWait, failStreak,
                 brokeMidStream>>

\* the same step of a subscription whose onEvent is not modelled
ReadChunk(n, rest) == ReadChunkStep(n, rest) /\ UNCHANGED runVars

\* reader.read() resolves with done: the iteration was successful
ReadDone ==
  /\ pc = "read" /\ ~aborted
  /\ respPos = respTo /\ ~partial
  /\ IterationSucceeds(sawTerminalStatus, lastSeqId)
  /\ failStreak' = 0
  /\ UNCHANGED <<bodyVars, pageVars, toolVars, runVars, serverVars, readerVars, connVars, respVars, aborted, lastWait,
                 brokeMidStream>>

\* reader.read() rejects: the stream broke, or the request timed out; the
\* buffer is lost with the reader
ReadFails(name) ==
  /\ pc = "read" /\ ~aborted
  /\ name \in {"TypeError", "TimeoutError"}
  /\ brokeMidStream' = (brokeMidStream \/ (sentId < respPos /\ respPos < respTo))
  /\ partial' = FALSE
  /\ failStreak' = failStreak + 1
  /\ Catch(name)
  /\ UNCHANGED <<bodyVars, pageVars, toolVars, runVars, serverVars, readerVars, connVars, requestVars, respPos,
                 respTo, aborted, lastWait>>

\* response.text() of a non-SSE body resolves: empty, or a JSON array
TextResolvesStep ==
  /\ pc = "text" /\ ~aborted
  /\ LET st == ProcessJsonBody(ReaderState, respPos + 1, respTo) IN
       /\ lastSeqId' = st.lastSeqId
       /\ sawTerminalStatus' = st.saw
       /\ delivered' = st.delivered
       /\ IterationSucceeds(st.saw, st.lastSeqId)
  /\ respPos' = respTo
  /\ failStreak' = 0
  /\ UNCHANGED <<bodyVars, pageVars, toolVars, serverVars, connVars, respTo, partial,
                 aborted, lastWait, brokeMidStream>>

\* the same step of a subscription whose onEvent is not modelled
TextResolves == TextResolvesStep /\ UNCHANGED runVars

\* response.text() of a non-SSE body rejects
TextFails(name) ==
  /\ pc = "text" /\ ~aborted
  /\ name \in {"TypeError", "TimeoutError"}
  /\ failStreak' = failStreak + 1
  /\ Catch(name)
  /\ UNCHANGED <<bodyVars, pageVars, toolVars, runVars, serverVars, readerVars, connVars, requestVars, respVars,
                 aborted, lastWait, brokeMidStream>>

\* the backoff setTimeout fires after its delay and the loop goes round
BackoffElapsed ==
  /\ pc = "backoff"
  /\ lastWait' = timer
  /\ timer' = 0
  /\ err' = "none"
  /\ LoopHead(sawTerminalStatus, lastSeqId)
  /\ UNCHANGED <<bodyVars, pageVars, toolVars, runVars, serverVars, readerVars, connVars, respVars, consecutiveErrors,
                 onErrorCalls, aborted, failStreak, brokeMidStream>>

\* the job emits its next event
ServerEmit ==
  /\ emitted < NumEvents
  /\ emitted' = emitted + 1
  /\ UNCHANGED <<bodyVars, pageVars, toolVars, runVars, logVars, redeliveries, readerVars, connVars,
                 requestVars, respVars, catchVars, aborted, lastWait,
                 failStreak, brokeMidStream>>

\* the caller invokes the cleanup function
Abort ==
  /\ ~aborted
  /\ aborted' = TRUE
  /\ UNCHANGED <<bodyVars, pageVars, toolVars, runVars, serverVars, readerVars, connVars, requestVars, respVars,
                 catchVars, lastWait, failStreak, brokeMidStream>>

\* the pending fetch / read / text of an aborted subscription rejects with
\* AbortError
AbortRejects ==
  /\ aborted /\ pc \in {"fetch", "errtext", "read", "text"}
  /\ Catch("AbortError")
  /\ UNCHANGED <<bodyVars, pageVars, toolVars, runVars, serverVars, readerVars, connVars, requestVars, respVars,
                 aborted, lastWait, failStreak, brokeMidStream>>

(* ------------------------------------------------------------------ *)
(* useChatJobEvents: the chat run                                     *)
(* ------------------------------------------------------------------ *)
Runs == 1..MaxRuns

\* pollOnce's status vocabulary
terminalSuccess == {"success", "complete", "succeeded"}
terminalError == {"error", "failed"}
nonTerminal == {"scheduled", "pending", "running", "executing"}

\* the hook before the first submission
InitRun ==
  /\ status = "idle"
  /\ jobId = 0
  /\ error = "none"
  /\ abortRef = 0
  /\ pollRef = 0
  /\ connectedRef = FALSE
  /\ assistantIdRef = 0
  /\ messages = [g \in Runs |-> [present |-> FALSE, text |-> <<>>]]
  /\ typewriterQueueRef = <<>>
  /\ typewriterTimerRef = 0
  /\ timeoutDelay = 0
  /\ pendingTimeouts = 0
  /\ tokenEvents = 0
  /\ events = <<>>
  /\ enqueuedText = <<>>
  /\ gen = 0
  /\ creating = {}
  /\ reads = {}
  /\ readsIssued = [g \in Runs |-> 0]
  /\ intervals = {}
  /\ subs = <<>>
  /\ jobState = [g \in Runs |-> "none"]
  /\ cancelled = {}

(* ------------------------------------------------------------------ *)
(* The chat tool's batch buffer                                       *)
(* ------------------------------------------------------------------ *)
\* the buffer when the stream starts
InitTool ==
  /\ now = 0
  /\ streamState = "open"
  /\ pending = <<>>
  /\ lastFlushAt = 0
  /\ phase = "first"
  /\ nextBatch = 1
  /\ arrived = 0
  /\ wire = <<>>
  /\ triggers = <<>>

(* ------------------------------------------------------------------ *)
(* The chat page: latency panel and diagnostic log                    *)
(* ------------------------------------------------------------------ *)
\* a metric that is not available (null)
Null == -1

\* the metrics of latencyBreakdown the page reads, in the order of the log
BreakdownFields ==
  <<"submitToJobCreateMs", "jobCreateToEventsSubscribeMs",
    "jobCreateToEventsConnectedMs", "submitToFirstEventMs",
    "submitToFirstTokenMs", "firstEventToFirstTokenMs",
    "firstTokenToCompleteMs", "serverStepEmitToEventEnvelopeMs",
    "eventEnvelopeToClientReceiveMs", "serverStepEmitToClientReceiveMs",
    "modelProxyTtftMs", "serverBufferFlushDelayMs", "jobEventsPipelineDelayMs">>

\* the key of each metric's line in the log
BreakdownKeys ==
  <<"submit_to_job_create_ms", "job_create_to_events_subscribe_ms",
    "job_create_to_events_connected_ms", "submit_to_first_event_ms",
    "submit_to_first_token_ms", "first_event_to_first_token_ms",
    "first_token_to_complete_ms", "server_step_emit_to_event_envelope_ms",
    "event_envelope_to_client_receive_ms", "server_step_emit_to_client_receive_ms",
    "model_proxy_ttft_ms", "server_buffer_flush_delay_ms",
    "jobevents_pipeline_delay_ms">>

\* the three targeted metrics
TargetedFields ==
  {"modelProxyTtftMs", "serverBufferFlushDelayMs", "jobEventsPipelineDelayMs"}

\* values of a targeted metric, in ms
MetricValues == {0, 1000, 2000, 9000}

\* a latencyBreakdown with the given targeted metrics, the others null
LatencyBreakdownOf(ttft, flush, pipeline) ==
  [f \in {BreakdownFields[i] : i \in 1..Len(BreakdownFields)} |->
     CASE f = "modelProxyTtftMs" -> ttft
       [] f = "serverBufferFlushDelayMs" -> flush
       [] f = "jobEventsPipelineDelayMs" -> pipeline
       [] OTHER -> Null]

\* the latencyBreakdown objects of the model: the targeted metrics vary
LatencyBreakdowns ==
  {LatencyBreakdownOf(ttft, flush, pipeline) :
     ttft \in MetricValues \cup {Null}, flush \in MetricValues \cup {Null},
     pipeline \in MetricValues \cup {Null}}

\* The diagnostic log built from latencyBreakdown: its '## ' headings in
\* order and, per key of the Latency Breakdown section, the value printed
\* (Null prints as n/a).
DiagnosticLog(lb) ==
  [sections |-> <<"Run", "Timestamps", "Latency Breakdown (ms)",
                  "Recent Events (up to last 40)">>,
   lines |-> [k \in {BreakdownKeys[i] : i \in 1..Len(BreakdownKeys)} |->
                LET i == CHOOSE j \in 1..Len(BreakdownKeys) : BreakdownKeys[j] = k
                IN  lb[BreakdownFields[i]]]]

InitPage ==
  /\ latencyBreakdown = LatencyBreakdownOf(Null, Null, Null)
  /\ diagnosticLog = DiagnosticLog(latencyBreakdown)

\* the hook returns a new latencyBreakdown and the page renders again
Render(lb) ==
  /\ lb # latencyBreakdown
  /\ latencyBreakdown' = lb
  /\ diagnosticLog' = DiagnosticLog(lb)
  /\ UNCHANGED <<bodyVars, subVars, runVars, toolVars>>

PageNext == \E lb \in LatencyBreakdowns : Render(lb)

(* ------------------------------------------------------------------ *)
(* Specification of one subscription                                  *)
(* ------------------------------------------------------------------ *)
\* subscribeToJobEvents has returned: poll() ran to its first await fetch
InitSubscription ==
  /\ statusPos \in 0..NumEvents
  /\ statusStr \in StatusStrings
  /\ (statusPos = 0 => statusStr = "running")
  /\ emitted = 0
  /\ redeliveries = 0
  /\ lastSeqId = 0
  /\ hasConnected = FALSE
  /\ sawTerminalStatus = FALSE
  /\ consecutiveErrors = 0
  /\ aborted = FALSE
  /\ pc = "fetch"
  /\ exit = "none"
  /\ timer = 0
  /\ respPos = 0
  /\ respTo = 0
  /\ partial = FALSE
  /\ numRequests = 1
  /\ sentId = 0
  /\ maxSentId = 0
  /\ delivered = <<>>
  /\ onErrorCalls = 0
  /\ onCompleteCalls = 0
  /\ lastWait = 0
  /\ failStreak = 0
  /\ err = "none"
  /\ brokeMidStream = FALSE

\* no response body is being read as text
InitBody ==
  /\ body = <<>>
  /\ consumed = 0
  /\ buffer = <<>>
  /\ chunksRead = 0
  /\ bodyDone = FALSE

InitSubscribed ==
  InitSubscription /\ InitRun /\ InitTool /\ InitPage /\ InitBody

\* a job whose log holds well-formed records only
Init == InitSubscribed /\ badPos = 0 /\ badKind = "none"

Next ==
  \/ \E name \in ErrNames : FetchFails(name)
  \/ Fetch204
  \/ FetchNotOk
  \/ \E name \in ErrNames : ErrTextSettles(name)
  \/ \E sse \in BOOLEAN : FetchOk(sse)
  \/ \E n \in 0..NumEvents, rest \in BOOLEAN : ReadChunk(n, rest)
  \/ ReadDone
  \/ \E name \in ErrNames : ReadFails(name)
  \/ TextResolves
  \/ \E name \in ErrNames : TextFails(name)
  \/ BackoffElapsed
  \/ ServerEmit
  \/ Abort
  \/ AbortRejects

Spec == Init /\ [][Next]_vars

\* the same subscription against a server that may redeliver older events
NextRedeliver ==
  \/ Next
  \/ \E from \in 1..NumEvents, to \in 1..NumEvents, sse \in BOOLEAN :
       FetchOkRedeliver(from, to, sse)

RedeliverSpec == Init /\ [][NextRedeliver]_vars

\* a job whose log holds one malformed or unrecognized record
MalformedInit ==
  /\ InitSubscribed
  /\ badPos \in 1..NumEvents /\ badPos # statusPos
  /\ badKind \in BadKinds

MalformedSpec == MalformedInit /\ [][Next]_vars

(* ------------------------------------------------------------------ *)
(* Actions of the chat run                                            *)
(* ------------------------------------------------------------------ *)
\* The state and refs a handler of the hook reads and writes, as a record
\* threaded through the statements of the handler.
RunRec ==
  [status |-> status, jobId |-> jobId, error |-> error, abortRef |-> abortRef,
   pollRef |-> pollRef, connectedRef |-> connectedRef, subs |-> subs,
   intervals |-> intervals, assistantId |-> assistantIdRef,
   messages |-> messages, queue |-> typewriterQueueRef,
   timer |-> typewriterTimerRef, delay |-> timeoutDelay,
   timeouts |-> pendingTimeouts]

Commit(r) ==
  /\ status' = r.status
  /\ jobId' = r.jobId
  /\ error' = r.error
  /\ abortRef' = r.abortRef
  /\ pollRef' = r.pollRef
  /\ connectedRef' = r.connectedRef
  /\ subs' = r.subs
  /\ intervals' = r.intervals
  /\ assistantIdRef' = r.assistantId
  /\ messages' = r.messages
  /\ typewriterQueueRef' = r.queue
  /\ typewriterTimerRef' = r.timer
  /\ timeoutDelay' = r.delay
  /\ pendingTimeouts' = r.timeouts

\* an appendAssistantChunk that replaces the text of the message by the chunk
AppendAssistantChunkOverwrites(r, chunk) ==
  IF r.assistantId = 0 THEN r
  ELSE [r EXCEPT !.messages[r.assistantId] =
          IF @.present THEN [@ EXCEPT !.text = chunk] ELSE @]

\* appendAssistantChunk: no assistant id, or no message with that id: nothing
AppendAssistantChunk(r, chunk) ==
  IF r.assistantId = 0 THEN r
  ELSE [r EXCEPT !.messages[r.assistantId] =
          IF @.present THEN [@ EXCEPT !.text = @ \o chunk] ELSE @]

\* stopTypewriter: clearTimeout of the timeout in the ref, if there is one
StopTypewriter(r) ==
  IF r.timer # 0
    THEN [r EXCEPT !.timer = 0, !.delay = 0, !.timeouts = @ - 1]
    ELSE r

\* a flush that reveals the queue but leaves the timer running
FlushTypewriterKeepsTimer(r) ==
  LET remaining == r.queue
      r2 == [r EXCEPT !.queue = <<>>]
  IN  IF remaining # <<>> THEN AppendAssistantChunk(r2, remaining) ELSE r2

FlushTypewriter(r) ==
  LET r1 == StopTypewriter(r)
      remaining == r1.queue
      r2 == [r1 EXCEPT !.queue = <<>>]
  IN  IF remaining # <<>> THEN AppendAssistantChunk(r2, remaining) ELSE r2

\* a tick delay that slows the typewriter down as the queue grows
tickMsScaledSlowsDown(n) ==
  MIN_TICK_MS * QUEUE_FAST_THRESHOLD
    + Min(n, QUEUE_FAST_THRESHOLD) * (MAX_TICK_MS - MIN_TICK_MS)

\* tickMs of scheduleNextTick for a queue of n characters, multiplied by
\* QUEUE_FAST_THRESHOLD so that the ratio n / QUEUE_FAST_THRESHOLD stays an
\* integer:  MAX_TICK_MS - min(n / QUEUE_FAST_THRESHOLD, 1) * (MAX - MIN)
tickMsScaled(n) ==
  MAX_TICK_MS * QUEUE_FAST_THRESHOLD
    - Min(n, QUEUE_FAST_THRESHOLD) * (MAX_TICK_MS - MIN_TICK_MS)

\* charsToEmit of scheduleNextTick for a queue of n characters
CharsToEmit(n) == IF n > BURST_THRESHOLD THEN Min(BURST_CHARS, n) ELSE 1

\* a scheduleNextTick that sets a timeout on an empty queue as well
ScheduleNextTickBusy(r) ==
  [r EXCEPT !.timer = CharsToEmit(Len(r.queue)),
            !.delay = tickMsScaled(Len(r.queue)),
            !.timeouts = @ + 1]

\* scheduleNextTick: pause on an empty queue, else set the next timeout
ScheduleNextTick(r) ==
  IF r.queue = <<>> THEN [r EXCEPT !.timer = 0, !.delay = 0]
  ELSE [r EXCEPT !.timer = CharsToEmit(Len(r.queue)),
                 !.delay = tickMsScaled(Len(r.queue)),
                 !.timeouts = @ + 1]

\* a startTypewriter without the test for a running timer
StartTypewriterAlways(r) == ScheduleNextTick(r)

StartTypewriter(r) == IF r.timer # 0 THEN r ELSE ScheduleNextTick(r)

EnqueueTypewriterText(r, text) ==
  StartTypewriter([r EXCEPT !.queue = @ \o text])

FinalizeAssistant(r) ==
  IF r.assistantId = 0 THEN r ELSE FlushTypewriter(r)

\* cleanup(): stop the typewriter, abort the subscription in abortRef, clear
\* the interval in pollRef
cleanup(r) ==
  LET r0 == StopTypewriter(r)
      r1 == IF r0.abortRef # 0
              THEN [r0 EXCEPT !.subs[r0.abortRef].state = "aborted", !.abortRef = 0]
              ELSE r0
      r2 == IF r1.pollRef # 0
              THEN [r1 EXCEPT !.intervals = @ \ {r1.pollRef}, !.pollRef = 0]
              ELSE r1
  IN  [r2 EXCEPT !.connectedRef = FALSE]

\* the body of pollOnce after `await readJob`, for job j and the status read
pollOnce(r, j, normalized) ==
  LET r1 == IF normalized \in {"running", "executing"} /\ ~r.connectedRef
              THEN [r EXCEPT !.connectedRef = TRUE,
                             !.status = "streaming",
                             !.subs = Append(@, [job |-> j, state |-> "live"]),
                             !.abortRef = Len(r.subs) + 1]
              ELSE r
  IN  IF normalized \in terminalSuccess
        THEN [FinalizeAssistant(cleanup(r1)) EXCEPT !.status = "success"]
      ELSE IF normalized \in terminalError
        THEN [FinalizeAssistant(cleanup(r1)) EXCEPT !.status = "error",
                                                    !.error = "job"]
      ELSE IF normalized \notin nonTerminal
        THEN [FinalizeAssistant(cleanup(r1)) EXCEPT !.status = "error",
                                                    !.error = "unexpected"]
      ELSE r1

isBusy == status \in {"submitting", "streaming"}

\* submitPrompt up to `await createChatJob`; the chat page submits only while
\* the hook is not busy
SubmitPrompt ==
  /\ gen < MaxRuns /\ ~isBusy
  /\ Commit([cleanup(RunRec) EXCEPT
               !.status = "submitting", !.error = "none", !.jobId = 0,
               !.assistantId = gen + 1,
               !.messages[gen + 1] = [present |-> TRUE, text |-> <<>>]])
  /\ tokenEvents' = 0
  /\ events' = <<>>
  /\ enqueuedText' = <<>>
  /\ gen' = gen + 1
  /\ creating' = creating \cup {gen + 1}
  /\ cancelled' = cancelled \cup 1..gen
  /\ UNCHANGED <<bodyVars, pageVars, toolVars, subVars, reads, readsIssued, jobState>>

\* createChatJob resolves: setJobId, then pollOnce runs to `await readJob`
CreateResolves(g) ==
  /\ g \in creating
  /\ creating' = creating \ {g}
  /\ jobId' = g
  /\ jobState' = [jobState EXCEPT ![g] = "scheduled"]
  /\ reads' = reads \cup {[job |-> g, first |-> TRUE, n |-> 1]}
  /\ readsIssued' = [readsIssued EXCEPT ![g] = 1]
  /\ UNCHANGED <<bodyVars, pageVars, toolVars, subVars, status, error, refVars, playVars, countVars, gen,
                 intervals, subs, cancelled>>

\* createChatJob rejects: the catch block of submitPrompt
CreateRejects(g) ==
  /\ g \in creating
  /\ creating' = creating \ {g}
  /\ Commit([FinalizeAssistant(cleanup(RunRec)) EXCEPT
               !.status = "error", !.error = "submit"])
  /\ UNCHANGED <<bodyVars, pageVars, toolVars, subVars, countVars, gen, reads, readsIssued, jobState, cancelled>>

\* readJob resolves with the job's status (or a body without one): the rest of
\* pollOnce; after the first pollOnce submitPrompt starts the interval
ReadResolvesStep(rd, normalized) ==
  /\ rd \in reads
  /\ normalized \in {jobState[rd.job], "unknown"}
  /\ reads' = reads \ {rd}
  /\ LET r1 == pollOnce(RunRec, rd.job, normalized)
         r2 == IF rd.first
                 THEN [r1 EXCEPT !.pollRef = rd.job,
                                 !.intervals = @ \cup {rd.job}]
                 ELSE r1
     IN  Commit(r2)
  /\ cancelled' = IF normalized \in terminalSuccess \cup terminalError
                    THEN cancelled \cup {rd.job} ELSE cancelled
  /\ UNCHANGED <<bodyVars, pageVars, toolVars, countVars, gen, creating, readsIssued,
                 jobState>>

\* the same step with the subscriptions seen only as created / aborted
ReadResolves(rd, normalized) ==
  ReadResolvesStep(rd, normalized) /\ UNCHANGED subVars

\* readJob rejects: the catch block of submitPrompt (first pollOnce) or the
\* catch handler of the interval
ReadRejects(rd) ==
  /\ rd \in reads
  /\ reads' = reads \ {rd}
  /\ Commit([FinalizeAssistant(cleanup(RunRec)) EXCEPT
               !.status = "error", !.error = "read"])
  /\ UNCHANGED <<bodyVars, pageVars, toolVars, subVars, countVars, gen, creating, readsIssued, jobState, cancelled>>

\* the 2 s interval of job j fires: pollOnce runs to `await readJob`
IntervalTick(j) ==
  /\ j \in intervals
  /\ readsIssued[j] < MaxReads
  /\ reads' = reads \cup {[job |-> j, first |-> FALSE, n |-> readsIssued[j] + 1]}
  /\ readsIssued' = [readsIssued EXCEPT ![j] = @ + 1]
  /\ UNCHANGED <<bodyVars, pageVars, toolVars, subVars, status, jobId, error, refVars, playVars, countVars, gen,
                 creating, intervals, subs, jobState, cancelled>>

\* poll() of a live subscription threw a TimeoutError: poll().catch drops it and
\* no callback of the hook runs
StreamGivesUpSilently(k) ==
  /\ k \in DOMAIN subs
  /\ subs[k].state = "live"
  /\ subs' = [subs EXCEPT ![k].state = "gaveup"]
  /\ UNCHANGED <<bodyVars, pageVars, toolVars, subVars, status, jobId, error, refVars, playVars, countVars, gen,
                 creating, reads, readsIssued, intervals, jobState, cancelled>>

\* a live subscription invokes the streamError callback
StreamError(k) ==
  /\ k \in DOMAIN subs
  /\ subs[k].state = "live"
  /\ Commit([FinalizeAssistant([RunRec EXCEPT !.subs[k].state = "failed"]) EXCEPT
               !.status = "error", !.error = "stream"])
  /\ UNCHANGED <<bodyVars, pageVars, toolVars, subVars, countVars, gen, creating, reads, readsIssued, jobState,
                 cancelled>>

\* reset()
Reset ==
  /\ Commit([cleanup(RunRec) EXCEPT
               !.queue = <<>>, !.assistantId = 0,
               !.messages = [g \in Runs |-> [present |-> FALSE, text |-> <<>>]],
               !.status = "idle", !.jobId = 0, !.error = "none"])
  /\ tokenEvents' = 0
  /\ events' = <<>>
  /\ enqueuedText' = <<>>
  /\ cancelled' = cancelled \cup 1..gen
  /\ UNCHANGED <<bodyVars, pageVars, toolVars, subVars, gen, creating, reads, readsIssued, jobState>>

\* the jobs service moves a job on
JobAdvances(j, to) ==
  /\ \/ jobState[j] = "scheduled" /\ to = "executing"
     \/ jobState[j] = "executing" /\ to \in {"succeeded", "failed"}
  /\ jobState' = [jobState EXCEPT ![j] = to]
  /\ UNCHANGED <<bodyVars, pageVars, toolVars, subVars, status, jobId, error, refVars, playVars, countVars, gen,
                 creating, reads, readsIssued, intervals, subs, cancelled>>

(* ------------------------------------------------------------------ *)
(* Events of a chat job and the playback of their text                *)
(* ------------------------------------------------------------------ *)
\* Step ids, as the sequence of their colon-separated segments
\* (<<"chat", "tokens", "1">> is "chat:tokens:1").
StepIds ==
  {<<"chat", "tokens", "1">>, <<"chat", "token", "1">>, <<"chat", "tokens">>,
   <<"chat", "status">>, <<"timer", "tick", "1">>}

\* message texts, as sequences of characters
Texts == {<<>>, <<"a", "b">>}

\* the JobEvents a subscription may hand to onEvent
ChatEvents == [step_id : StepIds, finished : BOOLEAN, message : Texts]

\* String.startsWith for a prefix that ends with a colon: the segments of the
\* prefix are followed by at least one more (possibly empty) segment
StartsWith(id, prefix) ==
  Len(id) > Len(prefix) /\ SubSeq(id, 1, Len(prefix)) = prefix

\* a test that takes every chat:* step for a token event
IsChatTokenEventAnyChat(event) == StartsWith(event.step_id, <<"chat">>)

IsChatTokenEvent(event) ==
  \/ StartsWith(event.step_id, <<"chat", "token">>)
  \/ StartsWith(event.step_id, <<"chat", "tokens">>)

GetChatTokenText(event) ==
  IF IsChatTokenEvent(event) THEN event.message ELSE <<>>

\* the state the onEvent callback works on
HookRec ==
  [run |-> RunRec, tokenEvents |-> tokenEvents, events |-> events,
   enqueuedText |-> enqueuedText]

CommitHook(h) ==
  /\ Commit(h.run)
  /\ tokenEvents' = h.tokenEvents
  /\ events' = h.events
  /\ enqueuedText' = h.enqueuedText

\* an onEvent that keeps only the token events in the events list
onEventKeepsTokensOnly(h, event) ==
  LET token == GetChatTokenText(event) IN
    IF IsChatTokenEvent(event) /\ ~event.finished /\ token # <<>>
      THEN [run |-> EnqueueTypewriterText(h.run, token),
            tokenEvents |-> h.tokenEvents + 1,
            events |-> Append(h.events, event),
            enqueuedText |-> h.enqueuedText \o token]
      ELSE h

\* the body of the onEvent callback: setEvents appends the event, a token
\* start event with text is counted and its text enqueued
onEvent(h, event) ==
  LET token == GetChatTokenText(event)
      h1 == [h EXCEPT !.events = Append(@, event)]
  IN  IF IsChatTokenEvent(event) /\ ~event.finished /\ token # <<>>
        THEN [h1 EXCEPT !.run = EnqueueTypewriterText(@, token),
                        !.tokenEvents = @ + 1,
                        !.enqueuedText = @ \o token]
        ELSE h1

\* the onEvent callback of the subscription subs[k]
OnEvent(k, event) ==
  /\ k \in DOMAIN subs
  /\ subs[k].state = "live"
  /\ tokenEvents < MaxTokenEvents
  /\ Len(events) < MaxEvents
  /\ CommitHook(onEvent(HookRec, event))
  /\ UNCHANGED <<bodyVars, pageVars, toolVars, subVars, gen, creating, reads, readsIssued, jobState, cancelled>>

\* the typewriter timeout fires
TypewriterTick ==
  /\ typewriterTimerRef # 0
  /\ pendingTimeouts > 0
  /\ LET current == typewriterQueueRef
         emitCount == Min(typewriterTimerRef, Len(current))
         fired == [RunRec EXCEPT !.timeouts = @ - 1]
     IN  IF current = <<>>
           THEN Commit([fired EXCEPT !.timer = 0, !.delay = 0])
           ELSE Commit(ScheduleNextTick(
                  AppendAssistantChunk(
                    [fired EXCEPT !.queue = SubSeq(current, emitCount + 1, Len(current))],
                    SubSeq(current, 1, emitCount))))
  /\ UNCHANGED <<bodyVars, pageVars, toolVars, subVars, countVars, gen, creating, reads, readsIssued, jobState,
                 cancelled>>

RunNext ==
  \/ SubmitPrompt
  \/ \E g \in Runs : CreateResolves(g)
  \/ \E g \in Runs : CreateRejects(g)
  \/ \E rd \in reads, st \in {"scheduled", "executing", "succeeded", "failed", "unknown"} :
       ReadResolves(rd, st)
  \/ \E rd \in reads : ReadRejects(rd)
  \/ \E j \in Runs : IntervalTick(j)
  \/ \E k \in 1..(MaxRuns * MaxReads) : StreamError(k)
  \/ \E k \in 1..(MaxRuns * MaxReads) : StreamGivesUpSilently(k)
  \/ Reset
  \/ \E j \in Runs, to \in {"executing", "succeeded", "failed"} : JobAdvances(j, to)

\* the chat hook, with its subscriptions seen only as created / aborted / failed
RunInit == Init /\ statusPos = 0

RunSpec == RunInit /\ [][RunNext]_vars

\* the chat hook with the events of its subscriptions and the typewriter
ChatNext ==
  \/ RunNext
  \/ \E k \in 1..(MaxRuns * MaxReads), event \in ChatEvents : OnEvent(k, event)
  \/ TypewriterTick

ChatSpec == RunInit /\ [][ChatNext]_vars

\* the start events of token batches that carry text
TokenStarts ==
  {e \in ChatEvents : IsChatTokenEvent(e) /\ ~e.finished /\ e.message # <<>>}

\* the chat hook over several prompts: the requests to the jobs service
\* succeed, the subscriptions deliver the start events of token batches and
\* may fail
SessionNext ==
  \/ SubmitPrompt
  \/ \E g \in Runs : CreateResolves(g)
  \/ \E rd \in reads, st \in {"scheduled", "executing", "succeeded", "failed"} :
       ReadResolves(rd, st)
  \/ \E j \in Runs : IntervalTick(j)
  \/ \E k \in 1..(MaxRuns * MaxReads) : StreamError(k)
  \/ Reset
  \/ \E j \in Runs, to \in {"executing", "succeeded", "failed"} : JobAdvances(j, to)
  \/ \E k \in 1..(MaxRuns * MaxReads), event \in TokenStarts : OnEvent(k, event)
  \/ TypewriterTick

SessionSpec == RunInit /\ [][SessionNext]_vars

\* One prompt: the hook from the first await of its first submitPrompt call
\* (SubmitPrompt from RunInit), with no further prompt submitted.
PlaybackInit ==
  /\ InitSubscription /\ statusPos = 0 /\ badPos = 0 /\ badKind = "none"
  /\ status = "submitting"
  /\ jobId = 0
  /\ error = "none"
  /\ abortRef = 0
  /\ pollRef = 0
  /\ connectedRef = FALSE
  /\ assistantIdRef = 1
  /\ messages = [g \in Runs |-> [present |-> g = 1, text |-> <<>>]]
  /\ typewriterQueueRef = <<>>
  /\ typewriterTimerRef = 0
  /\ timeoutDelay = 0
  /\ pendingTimeouts = 0
  /\ tokenEvents = 0
  /\ events = <<>>
  /\ enqueuedText = <<>>
  /\ gen = 1
  /\ creating = {1}
  /\ reads = {}
  /\ readsIssued = [g \in Runs |-> 0]
  /\ intervals = {}
  /\ subs = <<>>
  /\ jobState = [g \in Runs |-> "none"]
  /\ cancelled = {}
  /\ InitTool
  /\ InitPage
  /\ InitBody

PlaybackNext ==
  \/ \E g \in Runs : CreateResolves(g)
  \/ \E g \in Runs : CreateRejects(g)
  \/ \E rd \in reads, st \in {"scheduled", "executing", "succeeded", "failed", "unknown"} :
       ReadResolves(rd, st)
  \/ \E rd \in reads : ReadRejects(rd)
  \/ \E j \in Runs : IntervalTick(j)
  \/ \E k \in 1..(MaxRuns * MaxReads) : StreamError(k)
  \/ \E k \in 1..(MaxRuns * MaxReads) : StreamGivesUpSilently(k)
  \/ Reset
  \/ \E j \in Runs, to \in {"executing", "succeeded", "failed"} : JobAdvances(j, to)
  \/ \E k \in 1..(MaxRuns * MaxReads), event \in ChatEvents : OnEvent(k, event)
  \/ TypewriterTick

PlaybackSpec == PlaybackInit /\ [][PlaybackNext]_vars

\* the same, with every pending typewriter timeout firing in the end
FairPlaybackSpec == PlaybackSpec /\ WF_vars(TypewriterTick)

\* One prompt whose job is executing: the hook after createChatJob resolved
\* and the first readJob returned 'executing' (PlaybackInit, CreateResolves,
\* JobAdvances, ReadResolves), so its subscription is live and its status
\* poller is running; reset() is not called and no readJob rejects.
StreamingRun ==
  /\ status = "streaming"
  /\ jobId = 1
  /\ error = "none"
  /\ abortRef = 1
  /\ pollRef = 1
  /\ connectedRef = TRUE
  /\ assistantIdRef = 1
  /\ messages = [g \in Runs |-> [present |-> g = 1, text |-> <<>>]]
  /\ typewriterQueueRef = <<>>
  /\ typewriterTimerRef = 0
  /\ timeoutDelay = 0
  /\ pendingTimeouts = 0
  /\ tokenEvents = 0
  /\ events = <<>>
  /\ enqueuedText = <<>>
  /\ gen = 1
  /\ creating = {}
  /\ reads = {}
  /\ readsIssued = [g \in Runs |-> IF g = 1 THEN 1 ELSE 0]
  /\ intervals = {1}
  /\ subs = <<[job |-> 1, state |-> "live"]>>
  /\ jobState = [g \in Runs |-> IF g = 1 THEN "executing" ELSE "none"]
  /\ cancelled = {}

StreamingInit ==
  /\ InitSubscription /\ statusPos = 0 /\ badPos = 0 /\ badKind = "none"
  /\ StreamingRun
  /\ InitTool
  /\ InitPage
  /\ InitBody

StreamingNext ==
  \/ \E rd \in reads, st \in {"executing", "succeeded", "failed", "unknown"} :
       ReadResolves(rd, st)
  \/ \E j \in Runs : IntervalTick(j)
  \/ \E k \in 1..(MaxRuns * MaxReads) : StreamError(k)
  \/ \E j \in Runs, to \in {"succeeded", "failed"} : JobAdvances(j, to)
  \/ \E k \in 1..(MaxRuns * MaxReads), event \in ChatEvents : OnEvent(k, event)
  \/ TypewriterTick

StreamingSpec == StreamingInit /\ [][StreamingNext]_vars

(* ------------------------------------------------------------------ *)
(* The typewriter of a streaming run fed with long token texts         *)
(* ------------------------------------------------------------------ *)
\* a text of n characters
CharsOf(n) == [i \in 1..n |-> IF i % 2 = 1 THEN "a" ELSE "b"]

\* the lengths of the token texts: one character, a queue at and one above
\* the burst threshold
ChunkLens == {1, BURST_THRESHOLD, BURST_THRESHOLD + MaxBurst}

\* the token start events that carry these texts
BurstEvents ==
  {[step_id |-> <<"chat", "tokens", "1">>, finished |-> FALSE,
    message |-> CharsOf(n)] : n \in ChunkLens}

TypewriterNext ==
  \/ \E event \in BurstEvents : OnEvent(1, event)
  \/ TypewriterTick

TypewriterSpec == StreamingInit /\ [][TypewriterNext]_vars

(* ------------------------------------------------------------------ *)
(* The subscription of a run: the reader hands its events to onEvent   *)
(* ------------------------------------------------------------------ *)
\* The JobEvent parseIvcapEnvelope returns for the record at position i of
\* the log.  The job events of the log are the starts of token batches; the
\* message of a status event is the text `Job status: <status>`.
JobEventOf(i) ==
  IF Envelope(i).type = "ivcap.job.status"
    THEN [step_id |-> <<"job", "status">>, finished |-> TRUE,
          message |-> <<"Job status: ", Envelope(i).status>>, seqId |-> i]
    ELSE [step_id |-> <<"chat", "tokens", ToString(i)>>, finished |-> FALSE,
          message |-> <<"a", "b">>, seqId |-> i]

\* the events one chunk or body yields, in the order of their onEvent calls
Yielded(st) ==
  [k \in 1..(Len(st.delivered) - Len(delivered)) |->
     JobEventOf(st.delivered[Len(delivered) + k])]

\* the onEvent calls of one chunk or body, one after the other
RECURSIVE HandOver(_, _)
HandOver(h, evs) ==
  IF evs = <<>> THEN h ELSE HandOver(onEvent(h, Head(evs)), Tail(evs))

\* what the hook's callback does with the events of one chunk or body
OnEvents(evs) ==
  /\ subs # <<>> /\ subs[1].state = "live"
  /\ tokenEvents + Len(evs) <= MaxTokenEvents
  /\ Len(events) + Len(evs) <= MaxEvents
  /\ CommitHook(HandOver(HookRec, evs))
  /\ UNCHANGED <<gen, creating, reads, readsIssued, jobState, cancelled>>

ReadChunkOfRun(n, rest) ==
  /\ ReadChunkStep(n, rest)
  /\ OnEvents(Yielded(ProcessBlocks(ReaderState, respPos + 1, respPos + n)))

TextResolvesOfRun ==
  /\ TextResolvesStep
  /\ OnEvents(Yielded(ProcessJsonBody(ReaderState, respPos + 1, respTo)))

\* the run is streaming and its subscription has just been created
LinkedInit ==
  /\ InitSubscription /\ badPos = 0 /\ badKind = "none"
  /\ StreamingRun
  /\ InitTool
  /\ InitPage
  /\ InitBody

\* the requests of the subscription succeed
LinkedNext ==
  \/ Fetch204
  \/ \E sse \in BOOLEAN : FetchOk(sse)
  \/ \E n \in 0..NumEvents, rest \in BOOLEAN : ReadChunkOfRun(n, rest)
  \/ ReadDone
  \/ TextResolvesOfRun
  \/ ServerEmit
  \/ TypewriterTick

LinkedSpec == LinkedInit /\ [][LinkedNext]_vars

(* ------------------------------------------------------------------ *)
(* readSseStream on the characters of a response body                  *)
(* ------------------------------------------------------------------ *)
\* The characters of a body: the line end "\n", "i" for the `id:` at the
\* start of a line, "d" for `data:`, and "x" and "y" for the characters of a
\* value.  The id of `id:` followed by k x is k.  The payload of k x is the
\* JSON text of an ivcap.job.event envelope with SeqID k, the payload "y" is
\* the JSON text of a record without SeqID, and an empty payload is no JSON
\* text.
NL == "\n"

\* the lines and line ends the bodies are made of
Pieces ==
  {<<NL>>, <<"i", "x">>, <<"d", "x">>, <<"d", "x", "x">>, <<"d", "y">>, <<"d">>}

RECURSIVE Flatten(_)
Flatten(ps) == IF ps = <<>> THEN <<>> ELSE Head(ps) \o Flatten(Tail(ps))

Bodies == {Flatten(ps) : ps \in UNION {[1..k -> Pieces] : k \in 0..MaxPieces}}

\* text.split(sep) for the separator of sepLen line ends: the parts between
\* the leftmost non-overlapping separators
RECURSIVE SplitFrom(_, _, _, _)
SplitFrom(text, sepLen, cur, i) ==
  IF i > Len(text) THEN <<cur>>
  ELSE IF i + sepLen - 1 <= Len(text)
          /\ \A k \in i..(i + sepLen - 1) : text[k] = NL
    THEN <<cur>> \o SplitFrom(text, sepLen, <<>>, i + sepLen)
    ELSE SplitFrom(text, sepLen, Append(cur, text[i]), i + 1)

\* buffer.split('\n\n')
SplitBlocks(text) == SplitFrom(text, 2, <<>>, 1)

\* block.split('\n')
SplitLines(block) == SplitFrom(block, 1, <<>>, 1)

\* !block.trim(): the line end is the only white space of the bodies
IsBlank(text) == \A k \in 1..Len(text) : text[k] = NL

\* blockSeqId after the lines of a block: the value of its last id: line
\* (one that starts with "i") that has one, 0 for null
RECURSIVE BlockSeqId(_, _)
BlockSeqId(seqId, lines) ==
  IF lines = <<>> THEN seqId
  ELSE BlockSeqId(
         IF Len(Head(lines)) > 1 /\ Head(Head(lines)) = "i"
           THEN Len(Head(lines)) - 1 ELSE seqId,
         Tail(lines))

\* line.slice(5).trimStart() of the data lines
RECURSIVE Payloads(_)
Payloads(lines) ==
  IF lines = <<>> THEN <<>>
  ELSE IF Head(lines) # <<>> /\ Head(Head(lines)) = "d"
    THEN <<Tail(Head(lines))>> \o Payloads(Tail(lines))
    ELSE Payloads(Tail(lines))

\* parsed.SeqID of a payload, 0 when the record has none
PayloadSeqId(payload) == IF payload[1] = "x" THEN Len(payload) ELSE 0

\* processSseBlock on the text of a block; st holds lastSeqId and the seqId
\* of every event handed to onEvent (0 for null).  The id: lines set the
\* cursor as they are met.  The data lines joined by "\n" are JSON text if
\* exactly one of them has a payload (JSON.parse skips the line ends
\* around it); otherwise JSON.parse throws and processDataLine returns on
\* the empty text, or throws on it again and catches.
processSseBlock(st, block) ==
  IF IsBlank(block) THEN st
  ELSE LET lines == SplitLines(block)
           blockSeqId == BlockSeqId(0, lines)
           afterIds == IF blockSeqId # 0 THEN blockSeqId ELSE st.lastSeqId
           texts == SelectSeq(Payloads(lines), LAMBDA payload : payload # <<>>)
       IN  IF Len(texts) = 1
             THEN LET seqId == IF PayloadSeqId(texts[1]) # 0
                                 THEN PayloadSeqId(texts[1]) ELSE blockSeqId
                  IN  [lastSeqId |-> IF seqId # 0 THEN seqId ELSE afterIds,
                       delivered |-> Append(st.delivered, seqId)]
             ELSE [st EXCEPT !.lastSeqId = afterIds]

RECURSIVE processParts(_, _)
processParts(st, parts) ==
  IF parts = <<>> THEN st
  ELSE processParts(processSseBlock(st, Head(parts)), Tail(parts))

\* the parts of the buffer handed on by a reader that keeps no trailing part
CompleteBlocksAll(parts) == parts

\* the parts of the buffer that are complete blocks: all but the last,
\* which parts.pop() puts back into the buffer
CompleteBlocks(parts) == SubSeq(parts, 1, Len(parts) - 1)

\* reader.read() returns the next n characters of the body
ReadBytes(n) ==
  /\ ~bodyDone
  /\ n \in 1..(Len(body) - consumed)
  /\ LET parts == SplitBlocks(buffer \o SubSeq(body, consumed + 1, consumed + n))
         st == processParts([lastSeqId |-> lastSeqId, delivered |-> delivered],
                            CompleteBlocks(parts))
     IN  /\ buffer' = parts[Len(parts)]
         /\ lastSeqId' = st.lastSeqId
         /\ delivered' = st.delivered
  /\ consumed' = consumed + n
  /\ chunksRead' = chunksRead + 1
  /\ UNCHANGED <<body, bodyDone, pageVars, toolVars, runVars, serverVars,
                 sawTerminalStatus, connVars, requestVars, respVars,
                 catchVars, aborted, lastWait, failStreak, brokeMidStream>>

\* reader.read() returns done: what is left in the buffer is processed
ReadEnd ==
  /\ ~bodyDone
  /\ consumed = Len(body)
  /\ LET before == [lastSeqId |-> lastSeqId, delivered |-> delivered]
         st == IF IsBlank(buffer) THEN before ELSE processSseBlock(before, buffer)
     IN  /\ lastSeqId' = st.lastSeqId
         /\ delivered' = st.delivered
  /\ bodyDone' = TRUE
  /\ UNCHANGED <<body, consumed, buffer, chunksRead, pageVars, toolVars, runVars,
                 serverVars, sawTerminalStatus, connVars, requestVars,
                 respVars, catchVars, aborted, lastWait, failStreak,
                 brokeMidStream>>

\* a subscription that has received the response whose body is `body`
BodyInit ==
  /\ InitSubscription /\ statusPos = 0 /\ badPos = 0 /\ badKind = "none"
  /\ InitRun
  /\ InitTool
  /\ InitPage
  /\ body \in Bodies
  /\ consumed = 0
  /\ buffer = <<>>
  /\ chunksRead = 0
  /\ bodyDone = FALSE

BodyNext ==
  \/ \E n \in 1..Len(body) : ReadBytes(n)
  \/ ReadEnd

BodySpec == BodyInit /\ [][BodyNext]_vars

(* ------------------------------------------------------------------ *)
(* The status poller next to the subscription of the run               *)
(* ------------------------------------------------------------------ *)
\* the chat tool emits an event while the job executes
ToolEmits == jobState[1] = "executing" /\ ServerEmit

\* the job ends after the tool has emitted all its events
JobEnds(to) == emitted = NumEvents /\ JobAdvances(1, to)

\* pollOnce after `await readJob`; the cleanup() of a terminal status calls
\* the cleanup function of the subscription, which aborts its controller
ReadResolvesOfRun(rd, normalized) ==
  /\ ReadResolvesStep(rd, normalized)
  /\ aborted' = (aborted \/ subs'[1].state = "aborted")
  /\ UNCHANGED <<serverVars, readerVars, connVars, requestVars, respVars,
                 catchVars, lastWait, failStreak, brokeMidStream>>

RaceNext ==
  \/ Fetch204
  \/ \E sse \in BOOLEAN : FetchOk(sse)
  \/ \E n \in 0..NumEvents, rest \in BOOLEAN : ReadChunkOfRun(n, rest)
  \/ ReadDone
  \/ TextResolvesOfRun
  \/ AbortRejects
  \/ ToolEmits
  \/ \E to \in {"succeeded", "failed"} : JobEnds(to)
  \/ IntervalTick(1)
  \/ \E rd \in reads, st \in {"executing", "succeeded", "failed"} :
       ReadResolvesOfRun(rd, st)
  \/ TypewriterTick

RaceSpec == LinkedInit /\ [][RaceNext]_vars

(* ------------------------------------------------------------------ *)
(* The chat tool: token batching                                      *)
(* ------------------------------------------------------------------ *)
\* Fragment i of the model's output stands for its own text; a batch's
\* message is the sequence of the fragments it concatenates.
\* batching with the first batch's time threshold also for the later batches
TimeThresholdFirstOnly(ph) == FirstFlushMs

TimeThreshold(ph) == IF ph = "first" THEN FirstFlushMs ELSE SteadyFlushMs

\* batching with the later batches' count threshold also for the first batch
CountThresholdSteadyOnly(ph) == SteadyFlushCount

CountThreshold(ph) == IF ph = "first" THEN FirstFlushCount ELSE SteadyFlushCount

\* the time threshold of the current phase has been reached
TimeReached == now - lastFlushAt >= TimeThreshold(phase)

\* the chat:tokens:{n} event of a flush
BatchEvent(n, fragments) ==
  [step |-> "chat:tokens", batch |-> n, message |-> fragments]

CompleteEvent == [step |-> "chat:complete", batch |-> 0, message |-> <<>>]

\* a flush that keeps the batch number
EmitBatchSameNumber(fragments, trigger) ==
  /\ wire' = Append(wire, BatchEvent(nextBatch, fragments))
  /\ triggers' = Append(triggers, trigger)
  /\ nextBatch' = nextBatch

\* one flush: one event with the accumulated fragments, under the next number
EmitBatch(fragments, trigger) ==
  /\ wire' = Append(wire, BatchEvent(nextBatch, fragments))
  /\ triggers' = Append(triggers, trigger)
  /\ nextBatch' = nextBatch + 1

Flush(fragments, trigger) ==
  /\ EmitBatch(fragments, trigger)
  /\ pending' = <<>>
  /\ lastFlushAt' = now
  /\ phase' = "steady"

\* the model produces its next fragment
FragmentArrives ==
  /\ streamState = "open"
  /\ arrived < MaxFragments
  /\ arrived' = arrived + 1
  /\ LET p == Append(pending, arrived + 1) IN
       IF Len(p) >= CountThreshold(phase) THEN Flush(p, "count")
       ELSE IF TimeReached THEN Flush(p, "time")
       ELSE /\ pending' = p
            /\ UNCHANGED <<lastFlushAt, phase, nextBatch, wire, triggers>>
  /\ UNCHANGED <<bodyVars, pageVars, subVars, runVars, now, streamState>>

\* the time threshold is reached with fragments in the buffer
FlushOnTime ==
  /\ streamState = "open"
  /\ pending # <<>>
  /\ TimeReached
  /\ Flush(pending, "time")
  /\ UNCHANGED <<bodyVars, pageVars, subVars, runVars, now, streamState, arrived>>

\* time passes; a due flush is not delayed
Advance ==
  /\ streamState = "open"
  /\ now < MaxClockMs
  /\ ~(pending # <<>> /\ TimeReached)
  /\ now' = now + TickMs
  /\ UNCHANGED <<bodyVars, pageVars, subVars, runVars, streamState, pending, lastFlushAt, phase,
                 nextBatch, arrived, wire, triggers>>

\* a stream end that emits the completion marker without the final flush
StreamEndsNoFlush ==
  /\ streamState = "open"
  /\ streamState' = "ended"
  /\ wire' = Append(wire, CompleteEvent)
  /\ pending' = <<>>
  /\ UNCHANGED <<bodyVars, pageVars, subVars, runVars, now, arrived, lastFlushAt, phase, nextBatch,
                 triggers>>

\* the model's stream ends: the final flush, then chat:complete
StreamEnds ==
  /\ streamState = "open"
  /\ streamState' = "ended"
  /\ IF pending # <<>>
       THEN /\ wire' = Append(Append(wire, BatchEvent(nextBatch, pending)),
                               CompleteEvent)
            /\ triggers' = Append(triggers, "end")
            /\ nextBatch' = nextBatch + 1
            /\ pending' = <<>>
            /\ lastFlushAt' = now
            /\ phase' = "steady"
       ELSE /\ wire' = Append(wire, CompleteEvent)
            /\ UNCHANGED <<triggers, nextBatch, pending, lastFlushAt, phase>>
  /\ UNCHANGED <<bodyVars, pageVars, subVars, runVars, now, arrived>>

BatchNext ==
  \/ FragmentArrives
  \/ FlushOnTime
  \/ Advance
  \/ StreamEnds

\* the chat tool from the start of the model's stream
BatchSpec == RunInit /\ [][BatchNext]_vars

\* the chat page as its hook's latency metrics change
PageSpec == RunInit /\ [][PageNext]_vars

(* ------------------------------------------------------------------ *)
(* The reconstructed text (useChatJobEvents' onEvent callback)         *)
(* ------------------------------------------------------------------ *)
\* isChatTokenEvent(event) && !event.finished: a batch start event
IsBatchStart(i) == Envelope(i).type = "ivcap.job.event"

\* record i of the log is a well-formed envelope
WellFormed(i) == Envelope(i).kind = "ok"

\* The text the callback enqueues, as the sequence of the batches' log
\* positions (batch i's text stands for itself).
ReconstructedText(d) == SelectSeq(d, IsBatchStart)

(* ------------------------------------------------------------------ *)
(* Claims about the subscriber                                        *)
(* ------------------------------------------------------------------ *)
AwaitsResponse == pc \in {"fetch", "errtext", "read", "text"}

\* the latest iteration of the loop was a successful one
LastIterationSucceeded ==
  /\ hasConnected /\ failStreak = 0 /\ ~aborted
  /\ pc \in {"fetch", "done"}

\* C1: against a server that resumes strictly after Last-Event-ID, the events
\* passed to onEvent are at every moment the log positions 1..lastSeqId, each
\* once and in order, whatever requests failed before (also mid-stream); the
\* reconstructed text holds each delivered batch once; and after a successful
\* request everything the server had emitted when it answered was delivered.
C1_ExactlyOnce ==
  /\ delivered = [i \in 1..lastSeqId |-> i]
  /\ \A i \in 1..lastSeqId :
       IsBatchStart(i) =>
         Cardinality({k \in DOMAIN ReconstructedText(delivered) :
                        ReconstructedText(delivered)[k] = i}) = 1
  /\ LastIterationSucceeded => Len(delivered) = respTo

\* four failures in a row, one of them a stream that broke after delivering
\* part of its events, then a success: the whole log has been delivered
C1_Witness ==
  /\ LastIterationSucceeded /\ pc = "fetch"
  /\ lastWait = 8000 /\ brokeMidStream
  /\ emitted = NumEvents /\ delivered = [i \in 1..NumEvents |-> i]

\* C2: the Last-Event-ID of each request is at least that of every earlier
\* request, also when the server redelivers older events.
C2_CursorNeverBackward == sentId = maxSentId

\* C3: after the k-th consecutive failure (k = 1..4) the wait is 1 s, 2 s, 4 s,
\* 8 s; the request that follows is issued after exactly that wait; no wait is
\* longer than 10 s.
C3_BackoffDelays ==
  /\ pc = "backoff" =>
       /\ consecutiveErrors \in 1..4
       /\ timer = <<1000, 2000, 4000, 8000>>[consecutiveErrors]
  /\ (AwaitsResponse /\ consecutiveErrors >= 1) =>
       lastWait = <<1000, 2000, 4000, 8000>>[consecutiveErrors]
  /\ timer <= 10000 /\ lastWait <= 10000

\* the request after the fourth failure in a row was issued after 8 s
C3_Witness == pc = "fetch" /\ consecutiveErrors = 4 /\ lastWait = 8000

\* C4: after five failures in a row the loop has stopped and onError has been
\* invoked exactly once, whatever the fifth failure was.
C4_FifthFailureSurfaces ==
  failStreak >= 5 => (pc = "done" /\ exit = "throw" /\ onErrorCalls = 1)

\* C5: a non-success response is fatal (the loop stops and the error is
\* surfaced at once); only network and timeout failures are waited on and
\* retried.
C5_NotOkIsFatal ==
  /\ err = "Error" => (pc = "done" /\ exit = "throw" /\ onErrorCalls = 1)
  /\ pc = "backoff" => err \in {"TypeError", "TimeoutError"}

\* C6: once the cleanup function has been called, onError is not invoked, no
\* events request is issued, onEvent is not called, and a pending request can
\* only end the loop.
C6_AbortStopsQuietly ==
  [][aborted =>
       /\ onErrorCalls' = onErrorCalls
       /\ numRequests' = numRequests
       /\ delivered' = delivered
       /\ (AwaitsResponse => pc' \in {pc, "done"})
       /\ (pc' = "done" => exit' \in {exit, "return"})]_vars

\* the subscription was cancelled in the middle of a stream and has ended
C6_Witness ==
  /\ aborted /\ pc = "done" /\ exit = "return"
  /\ Len(delivered) >= 1 /\ respPos < respTo /\ onErrorCalls = 0

\* C7: a cancelled subscriber is not in a backoff wait.
C7_AbortCancelsBackoff == aborted => pc # "backoff"

\* C9: once a terminal status has been parsed, no further events request is
\* issued and the loop ends without throwing and without onError.
C9_TerminalStopsCleanly ==
  [][sawTerminalStatus' =>
       /\ (sawTerminalStatus => numRequests' = numRequests)
       /\ exit' # "throw"
       /\ onErrorCalls' = 0]_vars

\* C10: the failure counter is the number of failures since the last
\* successful iteration (204, empty body or body read to its end), so the loop
\* gives up only at five failures in a row and the first failure after a
\* success waits 1 s.
C10_SuccessResetsCounter ==
  /\ consecutiveErrors = failStreak
  /\ exit = "throw" => failStreak = 5
  /\ (pc = "backoff" /\ failStreak = 1) => timer = 1000

\* failures, then a success, then one failure: the wait is 1 s again
C10_Witness ==
  /\ pc = "backoff" /\ failStreak = 1 /\ timer = 1000
  /\ lastWait = 2000 /\ hasConnected

\* C11: a 204 response calls neither onEvent nor onError, leaves the cursor
\* where it was, does not increase the failure counter (it resets it), and the
\* loop goes on with the next request, which carries the same Last-Event-ID.
C11_NoDataContinues ==
  [][Fetch204 =>
       /\ delivered' = delivered
       /\ onErrorCalls' = onErrorCalls
       /\ lastSeqId' = lastSeqId
       /\ consecutiveErrors' <= consecutiveErrors /\ consecutiveErrors' = 0
       /\ pc' = "fetch" /\ exit' = "none" /\ timer' = 0
       /\ numRequests' = numRequests + 1
       /\ sentId' = sentId]_vars

\* a 204 answered the request that followed two failures: the counter is back
\* at 0, nothing was delivered and the next request is out
C11_Witness ==
  /\ pc = "fetch" /\ hasConnected /\ consecutiveErrors = 0
  /\ lastWait = 2000 /\ respPos = respTo /\ respTo = sentId
  /\ emitted = 0 /\ delivered = <<>> /\ onErrorCalls = 0

\* C12: a malformed or unrecognized record never counts as a failure, never
\* causes a backoff wait or onError, and does not keep the well-formed records
\* of the same response (SSE stream, JSON array, single object) from being
\* delivered.
C12_MalformedAbsorbed ==
  /\ consecutiveErrors = failStreak
  /\ pc = "backoff" => failStreak >= 1
  /\ onErrorCalls >= 1 => failStreak = 5
  /\ LastIterationSucceeded =>
       \A i \in 1..respTo :
         WellFormed(i) => \E k \in DOMAIN delivered : delivered[k] = i

\* C13: the cursor is the sequence id of an event that was handed to onEvent
\* (or is still unset).
C13_CursorOnlyProcessed ==
  lastSeqId = 0 \/ \E k \in DOMAIN delivered : delivered[k] = lastSeqId

(* ------------------------------------------------------------------ *)
(* Claims about the chat run                                          *)
(* ------------------------------------------------------------------ *)
\* the step runs the continuation of a createChatJob or readJob of run g
ContinuationOf(g) ==
  \/ g \in creating /\ g \notin creating'
  \/ \E rd \in reads : rd.job = g /\ rd \notin reads'

\* C8: once a run has been cancelled (reset, new submission, terminal status)
\* no status read is issued for it any more, and the continuation of a job
\* creation or status read of that run neither changes the hook's state nor
\* starts a subscription.
C8_CancelStopsPoller ==
  [][\A g \in cancelled :
       /\ readsIssued'[g] = readsIssued[g]
       /\ ContinuationOf(g) =>
            /\ <<status, jobId, error, refVars, intervals>>' =
                 <<status, jobId, error, refVars, intervals>>
            /\ Len(subs') = Len(subs)]_vars

(* ------------------------------------------------------------------ *)
(* Claims about the token text and its playback                       *)
(* ------------------------------------------------------------------ *)
IsPrefix(a, b) == Len(a) <= Len(b) /\ SubSeq(b, 1, Len(a)) = a

\* the text of the assistant message of the current run
RevealedText ==
  IF assistantIdRef # 0 /\ messages[assistantIdRef].present
    THEN messages[assistantIdRef].text
    ELSE <<>>

\* a start event of a chat:tokens:<n> or chat:token:<n> step
IsTokenStart(event) ==
  /\ ~event.finished
  /\ Len(event.step_id) >= 3
  /\ event.step_id[1] = "chat"
  /\ event.step_id[2] \in {"tokens", "token"}

\* C14: an event handed to onEvent appends its message to the end of the
\* playback queue if it is a start event of a chat:tokens: / chat:token: step,
\* and leaves the queue as it is otherwise (finish events, other step ids).
C14_OnlyTokenStartsEnqueue ==
  [][\A k \in 1..(MaxRuns * MaxReads), event \in ChatEvents :
       OnEvent(k, event) =>
         LET added == IF IsTokenStart(event) THEN event.message ELSE <<>> IN
           /\ typewriterQueueRef' = typewriterQueueRef \o added
           /\ enqueuedText' = enqueuedText \o added]_vars

\* two token batches were enqueued, one after the other
C14_Witness ==
  /\ tokenEvents = 2
  /\ enqueuedText = <<"a", "b", "a", "b">>
  /\ IsPrefix(typewriterQueueRef, enqueuedText) /\ typewriterQueueRef # <<>>

\* C15: a batch start event that is delivered again leaves the reconstructed
\* text as it was: no batch occurs in it more than once.
C15_RedeliveryIdempotent ==
  \A i \in 1..NumEvents :
    Cardinality({k \in DOMAIN ReconstructedText(delivered) :
                   ReconstructedText(delivered)[k] = i}) <= 1

\* C16: when the run is terminal, as many characters are in the assistant
\* message as were enqueued during the run.
C16_PlaybackConserves ==
  status \in {"success", "error"} => Len(RevealedText) = Len(enqueuedText)

\* the steps in which a handler calls flushTypewriter (through
\* finalizeAssistant, which has an assistant message to finalize)
FlushStep ==
  /\ assistantIdRef # 0
  /\ \/ \E k \in 1..(MaxRuns * MaxReads) : StreamError(k)
     \/ \E rd \in reads : ReadRejects(rd)
     \/ \E g \in Runs : CreateRejects(g)
     \/ \E rd \in reads, st \in {"succeeded", "failed", "unknown"} :
          ReadResolves(rd, st)

\* C17: a flush moves the whole queue into the assistant message in that one
\* step and leaves the queue empty and no tick pending; a pending tick always
\* has queued text, so after a flush a tick comes only after a new enqueue.
C17_FlushEmptiesAndStops ==
  [][/\ FlushStep =>
          /\ typewriterQueueRef' = <<>>
          /\ typewriterTimerRef' = 0
          /\ messages'[assistantIdRef].text =
               messages[assistantIdRef].text \o typewriterQueueRef
     /\ typewriterTimerRef' # 0 => typewriterQueueRef' # <<>>]_vars

\* the stream failed while text was queued: all of it is in the message, the
\* queue is empty and the timer is stopped
C17_Witness ==
  /\ status = "error" /\ error = "stream"
  /\ typewriterQueueRef = <<>> /\ typewriterTimerRef = 0
  /\ tokenEvents = 2 /\ RevealedText = <<"a", "b", "a", "b">>

\* C18: a subscription that ends with an error tells its run in that step: the
\* status is 'error', the queue is empty and the text enqueued so far is in
\* the assistant message.
C18_StreamErrorReachesRun ==
  [][\A k \in DOMAIN subs :
       (subs[k].state = "live" /\ subs'[k].state \in {"failed", "gaveup"}) =>
         /\ status' = "error"
         /\ typewriterQueueRef' = <<>>
         /\ RevealedText' = enqueuedText']_vars

\* C19: every change of an assistant message appends to its text, and the
\* step that takes the run to the error state keeps every message.
C19_TextOnlyGrows ==
  [][/\ \A g \in Runs :
          (messages[g].present /\ messages'[g].present) =>
            IsPrefix(messages[g].text, messages'[g].text)
     /\ status' = "error" =>
          \A g \in Runs : messages[g].present => messages'[g].present]_vars

\* the run went to the error state with part of the text revealed by ticks and
\* the rest by the flush
C19_Witness ==
  /\ status = "error" /\ RevealedText = <<"a", "b", "a", "b">>

\* C20: in the step that takes the run status to 'success' or 'error' the
\* playback queue ends empty and everything enqueued is revealed.
C20_TerminalFlushes ==
  [][(status' \in {"success", "error"} /\ status' # status) =>
       /\ typewriterQueueRef' = <<>>
       /\ RevealedText' = enqueuedText']_vars

(* ------------------------------------------------------------------ *)
(* Claims about the chat tool's batch buffer                          *)
(* ------------------------------------------------------------------ *)
\* the fragments from..to, in arrival order
Fragments(from, to) == [i \in 1..(to - from + 1) |-> from + i - 1]

\* the batch events of the wire, in emission order
IsBatchEvent(e) == e.step = "chat:tokens"

BatchEvents == SelectSeq(wire, IsBatchEvent)

RECURSIVE ConcatMessages(_)
ConcatMessages(evs) ==
  IF evs = <<>> THEN <<>> ELSE Head(evs).message \o ConcatMessages(Tail(evs))

C22_FinalFlushBeforeComplete ==
  /\ [][(StreamEnds /\ pending # <<>>)
         => wire' = wire \o <<BatchEvent(nextBatch, pending), CompleteEvent>>]_vars
  /\ [](streamState = "ended"
         => /\ wire # <<>>
            /\ wire[Len(wire)] = CompleteEvent
            /\ \A i \in 1..(Len(wire) - 1) : IsBatchEvent(wire[i])
            /\ ConcatMessages(BatchEvents) = Fragments(1, arrived))

\* the stream ended 10 ms after a flush by the count, with two fragments in
\* the buffer
C22_Witness ==
  /\ streamState = "ended"
  /\ triggers = <<"count", "end">>
  /\ wire[2].message = <<4, 5>>
  /\ now = 10

\* C23: the k-th batch event of a run carries batch number k, and every
\* flush has emitted exactly one batch event.
C23_BatchNumbersSequential ==
  /\ \A k \in 1..Len(BatchEvents) : BatchEvents[k].batch = k
  /\ Len(BatchEvents) = Len(triggers)
  /\ nextBatch = Len(triggers) + 1

\* three batches, flushed by the count, by the timer and by the stream end
C23_Witness ==
  /\ triggers = <<"count", "time", "end">>
  /\ Len(BatchEvents) = 3

\* C24: in the steady state a flush of the open stream happens only when
\* the buffer holds 20 fragments or 300 ms have passed since the previous
\* flush, and no buffer is left unflushed once either is reached; 20
\* fragments arriving in less than 300 ms are flushed by the count.
C24_SteadyThresholds ==
  /\ [][(phase = "steady" /\ streamState' = "open" /\ Len(wire') > Len(wire))
         => /\ Len(wire') = Len(wire) + 1
            /\ \/ Len(wire'[Len(wire')].message) = SteadyFlushCount
               \/ now - lastFlushAt >= SteadyFlushMs]_vars
  /\ [][(FragmentArrives /\ phase = "steady"
          /\ Len(pending) + 1 = SteadyFlushCount
          /\ now - lastFlushAt < SteadyFlushMs)
         => /\ triggers' = Append(triggers, "count")
            /\ wire' = Append(wire, BatchEvent(nextBatch, Append(pending, arrived + 1)))
            /\ pending' = <<>>]_vars
  /\ []((phase = "steady" /\ streamState = "open")
         => /\ Len(pending) < SteadyFlushCount
            /\ (pending # <<>> => now - lastFlushAt <= SteadyFlushMs))

\* 25 fragments 8 ms apart after the first flush: 20 flushed by the count
\* 160 ms after it, the other 5 at the stream end, 200 ms after it
C24_Witness ==
  /\ streamState = "ended"
  /\ Len(triggers) = 3
  /\ triggers[2] = "count" /\ triggers[3] = "end"
  /\ Len(wire[2].message) = 20
  /\ Len(wire[3].message) = 5
  /\ lastFlushAt = 300 /\ now = 300

(* ------------------------------------------------------------------ *)
(* Claims about the chat page                                         *)
(* ------------------------------------------------------------------ *)
\* the log key of each targeted metric's name in the heuristic's report
TargetedNames ==
  [model_proxy_ttft |-> "modelProxyTtftMs",
   server_buffer_flush_delay |-> "serverBufferFlushDelayMs",
   jobevents_pipeline_delay |-> "jobEventsPipelineDelayMs"]

\* C25: when the three targeted metrics are available, the diagnostic log
\* names as likely bottleneck one of them whose value is the largest of the
\* three, together with that value.
C25_BottleneckIsLargest ==
  (\A f \in TargetedFields : latencyBreakdown[f] # Null)
    => /\ "likely_bottleneck" \in DOMAIN diagnosticLog.lines
       /\ "likely_bottleneck_ms" \in DOMAIN diagnosticLog.lines
       /\ \E n \in DOMAIN TargetedNames :
            /\ diagnosticLog.lines["likely_bottleneck"] = n
            /\ diagnosticLog.lines["likely_bottleneck_ms"]
                 = latencyBreakdown[TargetedNames[n]]
            /\ \A f \in TargetedFields :
                 latencyBreakdown[f] <= latencyBreakdown[TargetedNames[n]]

(* ------------------------------------------------------------------ *)
(* Claims about the chat run and its subscription                     *)
(* ------------------------------------------------------------------ *)
\* C26: a run whose job was created and which has reached a terminal status
\* has had an events subscription started for that job.
C26_SubscribesAfterCreate ==
  (status \in {"success", "error"} /\ jobId # 0)
    => \E k \in DOMAIN subs : subs[k].job = jobId

\* The connection phase of the subscriber: Terminal once poll() has ended,
\* Retrying during a backoff wait, Streaming while a request or its response
\* is awaited after some request has connected, Connecting before that.
ConnectionPhase ==
  IF pc = "done" THEN "Terminal"
  ELSE IF pc = "backoff" THEN "Retrying"
  ELSE IF hasConnected THEN "Streaming"
  ELSE "Connecting"

\* the transitions of the stated machine
PhaseSteps ==
  {<<"Connecting", "Streaming">>, <<"Streaming", "Retrying">>,
   <<"Retrying", "Streaming">>, <<"Connecting", "Terminal">>,
   <<"Streaming", "Terminal">>, <<"Retrying", "Terminal">>}

\* C27: every step of the subscriber keeps its connection phase or takes a
\* transition of the stated machine (so Retrying is entered only from
\* Streaming and Terminal is never left), and the failure of the first
\* request with a non-success response ends the subscription with the
\* error surfaced.
C27_ConnectionPhases ==
  /\ [][ConnectionPhase' = ConnectionPhase
         \/ <<ConnectionPhase, ConnectionPhase'>> \in PhaseSteps]_vars
  /\ [][(ConnectionPhase = "Connecting" /\ numRequests = 1 /\ err' = "Error")
         => (ConnectionPhase' = "Terminal" /\ onErrorCalls' = 1)]_vars

\* the positions from..to of the log, in the order of their reception
RECURSIVE Positions(_, _)
Positions(from, to) ==
  IF from > to THEN <<>> ELSE <<from>> \o Positions(from + 1, to)

\* C28: the records of a chunk or of a body are handed to onEvent in the
\* order of their reception, and the events list of the run holds the event
\* of every delivered record, chat or not, in that same order.
C28_EventsInReceptionOrder ==
  /\ [][(pc \in {"read", "text"} /\ respPos' > respPos)
          => delivered' = delivered \o Positions(respPos + 1, respPos')]_vars
  /\ [](events = [k \in 1..Len(delivered) |-> JobEventOf(delivered[k])])

\* a status event was received before a token event, and both are listed
C28_Witness ==
  /\ delivered = <<1, 2>>
  /\ Len(events) = 2
  /\ ~IsChatTokenEvent(events[1])
  /\ IsChatTokenEvent(events[2])
  /\ tokenEvents = 1

\* C29: a tick emits 5 characters (the whole queue if it is shorter) when
\* the queue holds more than 200 characters at that tick, and one character
\* otherwise.
C29_CharsPerTick ==
  [][(typewriterTimerRef # 0 /\ Len(typewriterQueueRef') < Len(typewriterQueueRef))
       => Len(typewriterQueueRef) - Len(typewriterQueueRef') =
            IF Len(typewriterQueueRef) > 200
              THEN Min(5, Len(typewriterQueueRef))
              ELSE 1]_vars

C31_IdleUntilEnqueue ==
  /\ [][(Len(typewriterQueueRef') < Len(typewriterQueueRef)
           /\ typewriterQueueRef' = <<>>)
         => typewriterTimerRef' = 0]_vars
  /\ [][(typewriterTimerRef = 0 /\ typewriterQueueRef = <<>>
           /\ typewriterQueueRef' = <<>>)
         => (typewriterTimerRef' = 0
              /\ \A g \in Runs :
                   Len(messages'[g].text) <= Len(messages[g].text))]_vars
  /\ [][(typewriterTimerRef = 0
           /\ Len(typewriterQueueRef') > Len(typewriterQueueRef))
         => typewriterTimerRef' # 0]_vars

\* the typewriter is idle after it revealed the text of two token events
C31_Witness ==
  /\ status = "streaming"
  /\ typewriterQueueRef = <<>> /\ typewriterTimerRef = 0
  /\ tokenEvents = 2
  /\ Len(enqueuedText) = 4
  /\ RevealedText = enqueuedText

\* C32: the finish event of a batch step adds nothing to the playback queue
\* nor to the text enqueued, and it is counted in tokenEvents.
C32_FinishEventsCounted ==
  [][(Len(events') = Len(events) + 1
        /\ IsChatTokenEvent(events'[Len(events')])
        /\ events'[Len(events')].finished)
      => /\ typewriterQueueRef' = typewriterQueueRef
         /\ enqueuedText' = enqueuedText
         /\ tokenEvents' = tokenEvents + 1]_vars

\* C34: a run that is 'success' or 'error' keeps its status and its error
\* message until submitPrompt (status 'submitting') or reset (status 'idle').
C34_TerminalStatusSticks ==
  [][(status = "success" \/ status = "error")
      => ((status' = status /\ error' = error)
            \/ status' \in {"submitting", "idle"})]_vars

\* C35: a job never has two live subscriptions, and while the status is
\* 'success' or 'error' no subscription is created and the status goes to
\* no value but 'submitting' (submitPrompt) or 'idle' (reset).
C35_OneSubscriptionNoneAfterTerminal ==
  /\ [](\A j \in Runs :
          Cardinality({k \in DOMAIN subs :
                         subs[k].job = j /\ subs[k].state = "live"}) <= 1)
  /\ [][(status = "success" \/ status = "error")
         => (Len(subs') = Len(subs)
              /\ status' \in {"success", "error", "submitting", "idle"})]_vars

\* C36: submitPrompt leaves the playback queue empty with no timeout
\* pending, and the assistant message of the current run holds nothing but
\* text enqueued since that submitPrompt.
C36_NewRunStartsEmpty ==
  /\ [][(status' = "submitting" /\ status # "submitting")
         => (typewriterQueueRef' = <<>> /\ typewriterTimerRef' = 0)]_vars
  /\ [](IsPrefix(RevealedText, enqueuedText))

\* C37: the text of the run's assistant message followed by the playback
\* queue is the text enqueued so far in the run.
C37_RevealedThenQueueIsEnqueued ==
  RevealedText \o typewriterQueueRef = enqueuedText

\* C39: with pending timeouts firing, the n-th character enqueued in a run
\* is revealed in the end, unless reset or a new prompt ends the run.
C39_EnqueuedEventuallyRevealed ==
  \A n \in 1..(MaxTokenEvents + MaxTokenEvents) :
    (Len(enqueuedText) >= n)
      ~> (Len(RevealedText) >= n \/ status \in {"idle", "submitting"})

\* C38: at most one typewriter timeout is pending in the window, and it is
\* the one the timer ref holds.
C38_OneTimeoutPending ==
  /\ pendingTimeouts <= 1
  /\ (pendingTimeouts = 1 <=> typewriterTimerRef # 0)

\* text was enqueued twice while a timeout was pending, in the second run of
\* the session
C38_Witness ==
  /\ gen = 2
  /\ pendingTimeouts = 1
  /\ tokenEvents = 2
  /\ Len(typewriterQueueRef) = 4

\* the texts of the token batches among the first n records of the log
RECURSIVE BatchTexts(_)
BatchTexts(n) ==
  IF n = 0 THEN <<>>
  ELSE BatchTexts(n - 1)
         \o (IF IsChatTokenEvent(JobEventOf(n)) THEN JobEventOf(n).message
             ELSE <<>>)

\* C33: when the poller has set 'success', every record the job emitted has
\* been delivered and the assistant text is the text of all batches in
\* batch order; the subscription is not aborted while an emitted record is
\* undelivered.
C33_SuccessAfterAllBatches ==
  /\ [](status = "success"
          => (delivered = Positions(1, emitted)
               /\ RevealedText = BatchTexts(emitted)))
  /\ [][(aborted' /\ ~aborted) => delivered = Positions(1, emitted)]_vars

\* the reader state after the whole text was returned by one read
OnePiece(text) ==
  LET parts == SplitBlocks(text)
      st == processParts([lastSeqId |-> 0, delivered |-> <<>>],
                         SubSeq(parts, 1, Len(parts) - 1))
      rest == parts[Len(parts)]
  IN  IF IsBlank(rest) THEN st ELSE processSseBlock(st, rest)

\* C40: when the body has been read to its end, in whatever chunks, the
\* onEvent calls and the cursor are those of reading it in one piece.
C40_ChunkingIndependent ==
  bodyDone => (delivered = OnePiece(body).delivered
                /\ lastSeqId = OnePiece(body).lastSeqId)

\* a body of two blocks with an event each, read in chunks of one character:
\* chunks end inside the data lines and between the two line ends
C40_Witness ==
  /\ bodyDone
  /\ body = <<"d", "x", NL, NL, "d", "x", "x">>
  /\ chunksRead = Len(body)
  /\ delivered = <<1, 2>>
  /\ lastSeqId = 2


====
